---- MODULE Spec2Model ----
(***************************************************************************)
(* Model of src/backend/py_template/devdonalds.py: the name normaliser     *)
(* parse_handwriting, the /entry handler (create_entry and its validators) *)
(* and the /summary handler (summary and calculate_recipe_summary), over   *)
(* the process-wide dict recipe_store.                                     *)
(*                                                                         *)
(* Strings are sequences of one-character strings, so that the normaliser  *)
(* and Python's string ordering are computed character by character.       *)
(***************************************************************************)
EXTENDS Integers, Sequences, FiniteSets, TLC

\* ------------------------------------------------------------------------
\* Characters (str.isalpha, str.isspace, str.upper, str.lower, ord)
\* ------------------------------------------------------------------------
LowerLetters ==
  <<"a","b","c","d","e","f","g","h","i","j","k","l","m",
    "n","o","p","q","r","s","t","u","v","w","x","y","z">>

UpperLetters ==
  <<"A","B","C","D","E","F","G","H","I","J","K","L","M",
    "N","O","P","Q","R","S","T","U","V","W","X","Y","Z">>

Digits == <<"0","1","2","3","4","5","6","7","8","9">>

IndexIn(table, c) ==
  IF \E i \in 1..Len(table) : table[i] = c
  THEN CHOOSE i \in 1..Len(table) : table[i] = c
  ELSE 0

isalpha(c) == IndexIn(LowerLetters, c) > 0 \/ IndexIn(UpperLetters, c) > 0

isspace(c) == c = " "

upper(c) ==
  IF IndexIn(LowerLetters, c) > 0 THEN UpperLetters[IndexIn(LowerLetters, c)] ELSE c

lower(c) ==
  IF IndexIn(UpperLetters, c) > 0 THEN LowerLetters[IndexIn(UpperLetters, c)] ELSE c

\* Code point of a character of the modelled alphabet.
ord(c) ==
  IF c = " " THEN 32
  ELSE IF c = "-" THEN 45
  ELSE IF IndexIn(Digits, c) > 0 THEN 47 + IndexIn(Digits, c)
  ELSE IF IndexIn(UpperLetters, c) > 0 THEN 64 + IndexIn(UpperLetters, c)
  ELSE IF c = "_" THEN 95
  ELSE 96 + IndexIn(LowerLetters, c)

\* ------------------------------------------------------------------------
\* Strings
\* ------------------------------------------------------------------------
\* s.replace(old, new) for single characters
replace(s, old, new) == [i \in 1..Len(s) |-> IF s[i] = old THEN new ELSE s[i]]

RECURSIVE lstrip(_)
lstrip(s) == IF s # <<>> /\ isspace(Head(s)) THEN lstrip(Tail(s)) ELSE s

RECURSIVE rstrip(_)
rstrip(s) ==
  IF s # <<>> /\ isspace(s[Len(s)]) THEN rstrip(SubSeq(s, 1, Len(s) - 1)) ELSE s

strip(s) == rstrip(lstrip(s))

\* ''.join(char for char in s if char.isalpha() or char.isspace())
RECURSIVE KeepAlphaSpace(_)
KeepAlphaSpace(s) ==
  IF s = <<>> THEN <<>>
  ELSE IF isalpha(Head(s)) \/ isspace(Head(s))
       THEN <<Head(s)>> \o KeepAlphaSpace(Tail(s))
       ELSE KeepAlphaSpace(Tail(s))

\* s.split(): the maximal runs of non-whitespace characters.  cur is the
\* word being read.
RECURSIVE SplitFrom(_, _)
SplitFrom(s, cur) ==
  IF s = <<>> THEN (IF cur = <<>> THEN <<>> ELSE <<cur>>)
  ELSE IF isspace(Head(s))
       THEN (IF cur = <<>> THEN <<>> ELSE <<cur>>) \o SplitFrom(Tail(s), <<>>)
       ELSE SplitFrom(Tail(s), Append(cur, Head(s)))

split(s) == SplitFrom(s, <<>>)

\* word.capitalize()
capitalize(w) == [i \in 1..Len(w) |-> IF i = 1 THEN upper(w[i]) ELSE lower(w[i])]

\* ' '.join(words)
RECURSIVE join(_)
join(words) ==
  IF words = <<>> THEN <<>>
  ELSE IF Len(words) = 1 THEN words[1]
  ELSE words[1] \o <<" ">> \o join(Tail(words))

\* Python's None, and a value that is not None, for Optional results.
None == <<>>
Some(x) == <<x>>

parse_handwriting(recipeName) ==
  IF recipeName = <<>> \/ strip(recipeName) = <<>> THEN None
  ELSE LET processed == KeepAlphaSpace(replace(replace(recipeName, "-", " "), "_", " "))
           words == split(strip(processed))
       IN IF words = <<>> THEN None
          ELSE Some(join([i \in 1..Len(words) |-> capitalize(words[i])]))

\* parse_handwriting(name) or name
DisplayName(name) ==
  LET parsed == parse_handwriting(name)
  IN IF parsed = None \/ parsed[1] = <<>> THEN name ELSE parsed[1]

\* Python's str < str: code points, position by position; a proper prefix
\* is smaller.
RECURSIVE StrLess(_, _)
StrLess(a, b) ==
  IF b = <<>> THEN FALSE
  ELSE IF a = <<>> THEN TRUE
  ELSE IF ord(Head(a)) # ord(Head(b)) THEN ord(Head(a)) < ord(Head(b))
  ELSE StrLess(Tail(a), Tail(b))

\* ------------------------------------------------------------------------
\* JSON values as the handlers see them after request.get_json()
\* ------------------------------------------------------------------------
JInt(n) == [kind |-> "int", v |-> n]
\* JSON true / false: Python bool, a subclass of int (True == 1, False == 0)
JBool(b) == [kind |-> "bool", v |-> IF b THEN 1 ELSE 0]
\* a JSON string where a number or a list is expected
JStr == [kind |-> "str", v |-> 0]
JList(items) == [kind |-> "list", items |-> items]
JDict(d) == [kind |-> "dict", d |-> d]
\* dict.get(key) of a missing key
JNull == [kind |-> "null", v |-> 0]

\* isinstance(value, int)
IsInt(value) == value.kind \in {"int", "bool"}
\* the number an int (or bool) instance stands for in arithmetic
PyInt(value) == value.v

\* data.get(key)
Get(data, key) == IF key \in DOMAIN data THEN data[key] ELSE JNull

\* ------------------------------------------------------------------------
\* Names used by the requests
\* ------------------------------------------------------------------------
nEgg == <<"e","g","g">>
nEgg2 == <<"e","g","g","_","2">>
nFlour == <<"f","l","o","u","r">>
nBatter == <<"b","a","t","t","e","r">>
nPancake == <<"p","a","n","c","a","k","e">>
nSoup == <<"s","o","u","p">>
nEmpty == <<>>

Names == {nEgg, nEgg2, nFlour, nBatter, nPancake, nSoup, nEmpty}

Item(n, q) == JDict([name |-> n, quantity |-> q])

\* Well-formed create requests (bodies of POST /entry)
ValidRequests ==
  { [type |-> "ingredient", name |-> nEgg, cookTime |-> JInt(5)],
    [type |-> "recipe", name |-> nEgg, requiredItems |-> JList(<<>>)],
    [type |-> "ingredient", name |-> nEgg2, cookTime |-> JBool(TRUE)],
    [type |-> "ingredient", name |-> nFlour, cookTime |-> JInt(2)],
    [type |-> "recipe", name |-> nBatter,
       requiredItems |-> JList(<<Item(nEgg, JInt(2)), Item(nFlour, JInt(1))>>)],
    [type |-> "recipe", name |-> nBatter,
       requiredItems |-> JList(<<Item(nPancake, JInt(1))>>)],
    [type |-> "recipe", name |-> nPancake,
       requiredItems |-> JList(<<Item(nBatter, JInt(3))>>)],
    [type |-> "recipe", name |-> nPancake,
       requiredItems |-> JList(<<Item(nFlour, JInt(1)), Item(nBatter, JInt(3)),
                                 Item(nEgg2, JInt(1))>>)],
    [type |-> "recipe", name |-> nPancake,
       requiredItems |-> JList(<<Item(nPancake, JInt(1)), Item(nEgg, JInt(1))>>)],
    [type |-> "recipe", name |-> nEmpty,
       requiredItems |-> JList(<<Item(nEgg, JInt(1))>>)] }

\* the JSON object {}
EmptyDict == [key \in {} |-> JNull]

\* Malformed create requests, one per validation branch
InvalidRequests ==
  { EmptyDict,
    [name |-> nSoup, cookTime |-> JInt(1)],
    [type |-> "ingredient", cookTime |-> JInt(1)],
    [type |-> "drink", name |-> nSoup],
    [type |-> "ingredient", name |-> nSoup],
    [type |-> "ingredient", name |-> nSoup, cookTime |-> JInt(0 - 1)],
    [type |-> "ingredient", name |-> nSoup, cookTime |-> JStr],
    [type |-> "recipe", name |-> nSoup],
    [type |-> "recipe", name |-> nSoup, requiredItems |-> JStr],
    [type |-> "recipe", name |-> nSoup, requiredItems |-> JList(<<JStr>>)],
    [type |-> "recipe", name |-> nSoup,
       requiredItems |-> JList(<<JDict([name |-> nEgg])>>)],
    [type |-> "recipe", name |-> nSoup,
       requiredItems |-> JList(<<JDict([quantity |-> JInt(1)])>>)],
    [type |-> "recipe", name |-> nSoup,
       requiredItems |-> JList(<<Item(nEgg, JInt(0))>>)],
    [type |-> "recipe", name |-> nSoup,
       requiredItems |-> JList(<<Item(nEgg, JBool(FALSE))>>)],
    [type |-> "recipe", name |-> nSoup,
       requiredItems |-> JList(<<Item(nEgg, JStr)>>)],
    [type |-> "recipe", name |-> nPancake,
       requiredItems |-> JList(<<Item(nEgg, JInt(1)), Item(nEgg, JInt(2))>>)] }

\* request.get_json() of POST /entry
EntryRequests == ValidRequests \cup InvalidRequests

\* request.args.get('name') of GET /summary: None when the parameter is missing
SummaryArgs == {None} \cup {Some(n) : n \in Names}

\* ------------------------------------------------------------------------
\* Entities (the dataclasses) and the store
\* ------------------------------------------------------------------------
Ingredient(name, cook_time) ==
  [cls |-> "Ingredient", name |-> name, cook_time |-> cook_time]

Recipe(name, required_items) ==
  [cls |-> "Recipe", name |-> name, required_items |-> required_items]

RequiredItem(name, quantity) == [name |-> name, quantity |-> quantity]

\* a key that recipe_store does not hold
Absent == [cls |-> "Absent"]

\* key in store
In(key, store) == store[key].cls # "Absent"

\* recipe_store = {key: entry}: the store rebound instead of updated
Put_Replace(store, key, entry) ==
  [k \in Names |-> IF k = key THEN entry ELSE Absent]

\* store[key] = entry
Put(store, key, entry) == [store EXCEPT ![key] = entry]

\* ------------------------------------------------------------------------
\* POST /entry: validation
\* ------------------------------------------------------------------------
process_ingredient(data) ==
  IF ~IsInt(Get(data, "cookTime")) \/ PyInt(data.cookTime) < 0 THEN None
  ELSE Some([raw_name |-> data.name,
             entry |-> Ingredient(DisplayName(data.name), data.cookTime)])

\* process_recipe without the seen_items test
RECURSIVE CollectItems_NoSeenCheck(_, _, _, _)
CollectItems_NoSeenCheck(items, i, seen_items, required_items) ==
  IF i > Len(items) THEN Some(required_items)
  ELSE LET item == items[i]
       IN IF item.kind # "dict" \/ "name" \notin DOMAIN item.d
             \/ "quantity" \notin DOMAIN item.d
          THEN None
          ELSE IF ~IsInt(item.d.quantity) \/ PyInt(item.d.quantity) <= 0 THEN None
          ELSE CollectItems_NoSeenCheck(items, i + 1, seen_items \cup {item.d.name},
                            Append(required_items,
                                   RequiredItem(item.d.name, item.d.quantity)))

\* The for loop of process_recipe from item i on: None as soon as an item is
\* rejected, otherwise the required_items list built so far.
RECURSIVE CollectItems(_, _, _, _)
CollectItems(items, i, seen_items, required_items) ==
  IF i > Len(items) THEN Some(required_items)
  ELSE LET item == items[i]
       IN IF item.kind # "dict" \/ "name" \notin DOMAIN item.d
             \/ "quantity" \notin DOMAIN item.d
          THEN None
          ELSE IF ~IsInt(item.d.quantity) \/ PyInt(item.d.quantity) <= 0 THEN None
          ELSE IF item.d.name \in seen_items THEN None
          ELSE CollectItems(items, i + 1, seen_items \cup {item.d.name},
                            Append(required_items,
                                   RequiredItem(item.d.name, item.d.quantity)))

process_recipe(data) ==
  IF Get(data, "requiredItems").kind # "list" THEN None
  ELSE LET collected == CollectItems(data.requiredItems.items, 1, {}, <<>>)
       IN IF collected = None THEN None
          ELSE Some([raw_name |-> data.name,
                     entry |-> Recipe(DisplayName(data.name), collected[1])])

\* validate_entry_data without the duplicate check
validate_entry_data_NoDuplicateCheck(data, store) ==
  IF DOMAIN data = {} \/ "type" \notin DOMAIN data \/ "name" \notin DOMAIN data
  THEN None
  ELSE IF data.type = "ingredient" THEN process_ingredient(data)
  ELSE IF data.type = "recipe" THEN process_recipe(data)
  ELSE None

\* validate_entry_data with a referential-integrity check on a recipe's items
validate_entry_data_RequireKnownItems(data, store) ==
  IF DOMAIN data = {} \/ "type" \notin DOMAIN data \/ "name" \notin DOMAIN data
  THEN None
  ELSE IF In(data.name, store) THEN None
  ELSE IF data.type = "ingredient" THEN process_ingredient(data)
  ELSE IF data.type = "recipe"
       THEN LET built == process_recipe(data)
            IN IF built = None THEN None
               ELSE IF \E i \in 1..Len(built[1].entry.required_items) :
                          ~In(built[1].entry.required_items[i].name, store)
                    THEN None
                    ELSE built
  ELSE None

validate_entry_data(data, store) ==
  IF DOMAIN data = {} \/ "type" \notin DOMAIN data \/ "name" \notin DOMAIN data
  THEN None
  ELSE IF In(data.name, store) THEN None
  ELSE IF data.type = "ingredient" THEN process_ingredient(data)
  ELSE IF data.type = "recipe" THEN process_recipe(data)
  ELSE None

\* ------------------------------------------------------------------------
\* GET /summary: helpers of calculate_recipe_summary
\* ------------------------------------------------------------------------
\* Bounds of the model: the longest work list, the largest multiplier and the
\* largest accumulated quantity a traversal step may produce.  Only a
\* traversal of a cyclic composition graph reaches them.
MaxStack == 4
MaxMult == 8
MaxCount == 8

\* ingredient_counts[name] += multiplier, on a Counter kept as the sequence of
\* its items in insertion order
CounterAdd(counts, name, multiplier) ==
  IF \E i \in 1..Len(counts) : counts[i].name = name
  THEN [i \in 1..Len(counts) |->
          IF counts[i].name = name
          THEN [name |-> name, quantity |-> counts[i].quantity + multiplier]
          ELSE counts[i]]
  ELSE Append(counts, [name |-> name, quantity |-> multiplier])

\* the loop with new_multiplier = req_item.quantity
RECURSIVE PushRequired_DropMultiplier(_, _, _, _, _)
PushRequired_DropMultiplier(required_items, i, multiplier, store, stk) ==
  IF i < 1 THEN Some(stk)
  ELSE LET req_item == required_items[i]
       IN IF ~In(req_item.name, store) THEN None
          ELSE PushRequired_DropMultiplier(required_items, i - 1, multiplier, store,
                 Append(stk, [entry |-> store[req_item.name],
                              multiplier |-> PyInt(req_item.quantity)]))

\* the loop pushing required ingredients only, nested recipes left out
RECURSIVE PushRequired_IngredientsOnly(_, _, _, _, _)
PushRequired_IngredientsOnly(required_items, i, multiplier, store, stk) ==
  IF i < 1 THEN Some(stk)
  ELSE LET req_item == required_items[i]
       IN IF ~In(req_item.name, store) THEN None
          ELSE PushRequired_IngredientsOnly(required_items, i - 1, multiplier, store,
                 IF store[req_item.name].cls = "Recipe" THEN stk
                 ELSE Append(stk, [entry |-> store[req_item.name],
                                   multiplier |-> multiplier * PyInt(req_item.quantity)]))

\* The for loop over reversed(required_items), from item i down to the first:
\* None when an item is missing from the store (ValueError), otherwise the
\* stack with every required entry pushed.
RECURSIVE PushRequired(_, _, _, _, _)
PushRequired(required_items, i, multiplier, store, stk) ==
  IF i < 1 THEN Some(stk)
  ELSE LET req_item == required_items[i]
       IN IF ~In(req_item.name, store) THEN None
          ELSE PushRequired(required_items, i - 1, multiplier, store,
                 Append(stk, [entry |-> store[req_item.name],
                              multiplier |-> multiplier * PyInt(req_item.quantity)]))

\* (name, qty) < (name, qty) on tuples
ItemLess(a, b) ==
  \/ StrLess(a.name, b.name)
  \/ a.name = b.name /\ a.quantity < b.quantity

\* insertion of one item into a sorted sequence
RECURSIVE InsertSorted(_, _)
InsertSorted(sortedSeq, item) ==
  IF sortedSeq = <<>> THEN <<item>>
  ELSE IF ItemLess(item, Head(sortedSeq)) THEN <<item>> \o sortedSeq
  ELSE <<Head(sortedSeq)>> \o InsertSorted(Tail(sortedSeq), item)

\* the items in the Counter's insertion order, not sorted
sorted_InsertionOrder(items) == items

\* sorted(ingredient_counts.items())
RECURSIVE sorted(_)
sorted(items) ==
  IF items = <<>> THEN <<>>
  ELSE InsertSorted(sorted(SubSeq(items, 1, Len(items) - 1)), items[Len(items)])

\* the dict calculate_recipe_summary returns
SummaryData(root, total, counts) ==
  [name |-> root.name, cookTime |-> total, ingredients |-> sorted(counts)]

\* ------------------------------------------------------------------------
\* State
\* ------------------------------------------------------------------------
\* The server's request-handling threads.  A server that processes requests
\* one at a time has one of them at work.
Threads == {1, 2}

VARIABLES
  recipe_store,        \* the module-level dict: key -> entry, or Absent
  pc,                  \* per thread: "idle", "insert" (create_entry between
                       \*   validation and the store assignment), "loop"
                       \*   (inside the while loop of calculate_recipe_summary)
  entry_data,          \* per thread: create_entry's validated entry_data
  recipe,              \* per thread: the recipe being summarised
  stack,               \* per thread: the work list of calculate_recipe_summary
  ingredient_counts,   \* per thread: the Counter, items in insertion order
  total_cooking_time,  \* per thread
  resp                 \* per thread: the last response sent

vars == <<recipe_store, pc, entry_data, recipe, stack, ingredient_counts,
          total_cooking_time, resp>>

summaryLocals == <<recipe, stack, ingredient_counts, total_cooking_time>>

NoResponse == [op |-> "none", name |-> None, status |-> 0, body |-> None]

\* return {}, 400 / return {}, 200 / return jsonify(summary_data), 200
Response(op, name, status, body) ==
  [op |-> op, name |-> name, status |-> status, body |-> body]

Init ==
  /\ recipe_store = [k \in Names |-> Absent]
  /\ pc = [t \in Threads |-> "idle"]
  /\ entry_data = [t \in Threads |-> None]
  /\ recipe = [t \in Threads |-> Absent]
  /\ stack = [t \in Threads |-> <<>>]
  /\ ingredient_counts = [t \in Threads |-> <<>>]
  /\ total_cooking_time = [t \in Threads |-> 0]
  /\ resp = [t \in Threads |-> NoResponse]

\* the 'name' of a create request, for the response record
RequestName(data) == IF "name" \in DOMAIN data THEN Some(data.name) ELSE None

\* ------------------------------------------------------------------------
\* POST /entry
\* ------------------------------------------------------------------------
\* create_entry run from start to end with no other request in between
CreateEntry(t, data) ==
  /\ pc[t] = "idle"
  /\ LET ed == validate_entry_data(data, recipe_store)
     IN IF ed = None
        THEN /\ resp' = [resp EXCEPT ![t] = Response("entry", RequestName(data), 400, None)]
             /\ UNCHANGED recipe_store
        ELSE /\ recipe_store' = Put(recipe_store, ed[1].raw_name, ed[1].entry)
             /\ resp' = [resp EXCEPT ![t] = Response("entry", RequestName(data), 200, None)]
  /\ UNCHANGED <<pc, entry_data, summaryLocals>>

\* create_entry up to 'if not entry_data': the validation, duplicate check
\* included, against the store as it is now
CreateValidate(t, data) ==
  /\ pc[t] = "idle"
  /\ LET ed == validate_entry_data(data, recipe_store)
     IN IF ed = None
        THEN /\ resp' = [resp EXCEPT ![t] = Response("entry", RequestName(data), 400, None)]
             /\ UNCHANGED <<pc, entry_data>>
        ELSE /\ pc' = [pc EXCEPT ![t] = "insert"]
             /\ entry_data' = [entry_data EXCEPT ![t] = ed]
             /\ resp' = [resp EXCEPT ![t] = NoResponse]
  /\ UNCHANGED <<recipe_store, summaryLocals>>

\* recipe_store[entry_data['raw_name']] = entry_data['entry']; return {}, 200
CreateInsert(t) ==
  /\ pc[t] = "insert"
  /\ recipe_store' = Put(recipe_store, entry_data[t][1].raw_name, entry_data[t][1].entry)
  /\ resp' = [resp EXCEPT ![t] =
                Response("entry", Some(entry_data[t][1].raw_name), 200, None)]
  /\ pc' = [pc EXCEPT ![t] = "idle"]
  /\ entry_data' = [entry_data EXCEPT ![t] = None]
  /\ UNCHANGED summaryLocals

\* ------------------------------------------------------------------------
\* GET /summary
\* ------------------------------------------------------------------------
ClearLocals(t) ==
  /\ recipe' = [recipe EXCEPT ![t] = Absent]
  /\ stack' = [stack EXCEPT ![t] = <<>>]
  /\ ingredient_counts' = [ingredient_counts EXCEPT ![t] = <<>>]
  /\ total_cooking_time' = [total_cooking_time EXCEPT ![t] = 0]

\* the entry checks of summary() without the isinstance test
RejectedAtEntry_NoTypeCheck(arg, store) ==
  \/ arg = None
  \/ arg[1] = <<>>
  \/ ~In(arg[1], store)

\* 'not recipe_name or recipe_name not in recipe_store', then the isinstance
\* check: the request is answered 400 without calling calculate_recipe_summary
RejectedAtEntry(arg, store) ==
  \/ arg = None
  \/ arg[1] = <<>>
  \/ ~In(arg[1], store)
  \/ store[arg[1]].cls # "Recipe"

\* summary() up to the first test of 'while stack'
SummaryStart(t, arg) ==
  /\ pc[t] = "idle"
  /\ IF RejectedAtEntry(arg, recipe_store)
     THEN /\ resp' = [resp EXCEPT ![t] = Response("summary", arg, 400, None)]
          /\ UNCHANGED <<pc, summaryLocals>>
     ELSE /\ pc' = [pc EXCEPT ![t] = "loop"]
          /\ recipe' = [recipe EXCEPT ![t] = recipe_store[arg[1]]]
          /\ stack' = [stack EXCEPT ![t] =
                         <<[entry |-> recipe_store[arg[1]], multiplier |-> 1]>>]
          /\ ingredient_counts' = [ingredient_counts EXCEPT ![t] = <<>>]
          /\ total_cooking_time' = [total_cooking_time EXCEPT ![t] = 0]
          /\ resp' = [resp EXCEPT ![t] = Response("summary", arg, 0, None)]
  /\ UNCHANGED <<recipe_store, entry_data>>

WithinBounds(stk) ==
  /\ Len(stk) <= MaxStack
  /\ \A i \in 1..Len(stk) : stk[i].multiplier <= MaxMult

\* stack[-1] read without removing it
Pop_Peek(stk) == stk

\* stack.pop()
Pop(stk) == SubSeq(stk, 1, Len(stk) - 1)

\* the exception handler of summary(): return {}, 400
SummaryRaise(t) ==
  /\ resp' = [resp EXCEPT ![t] = Response("summary", resp[t].name, 400, None)]
  /\ pc' = [pc EXCEPT ![t] = "idle"]
  /\ ClearLocals(t)

\* one iteration of the while loop
SummaryStep(t) ==
  /\ pc[t] = "loop"
  /\ stack[t] # <<>>
  /\ LET current_entry == stack[t][Len(stack[t])].entry
         multiplier == stack[t][Len(stack[t])].multiplier
         rest == Pop(stack[t])
     IN IF current_entry.cls = "Ingredient"
        THEN /\ LET counted == CounterAdd(ingredient_counts[t], current_entry.name,
                                          multiplier)
                IN \A i \in 1..Len(counted) : counted[i].quantity <= MaxCount
             /\ ingredient_counts' = [ingredient_counts EXCEPT ![t] =
                                        CounterAdd(@, current_entry.name, multiplier)]
             /\ total_cooking_time' = [total_cooking_time EXCEPT ![t] =
                                         @ + PyInt(current_entry.cook_time) * multiplier]
             /\ stack' = [stack EXCEPT ![t] = rest]
             /\ UNCHANGED <<pc, recipe, resp>>
        ELSE IF current_entry.cls = "Recipe"
        THEN LET pushed == PushRequired(current_entry.required_items,
                                        Len(current_entry.required_items),
                                        multiplier, recipe_store, rest)
             IN IF pushed = None
                THEN SummaryRaise(t)
                ELSE /\ WithinBounds(pushed[1])
                     /\ stack' = [stack EXCEPT ![t] = pushed[1]]
                     /\ UNCHANGED <<pc, recipe, ingredient_counts,
                                    total_cooking_time, resp>>
        ELSE SummaryRaise(t)
  /\ UNCHANGED <<recipe_store, entry_data>>

\* 'while stack' is false: format the response, return jsonify(...), 200
SummaryReturn(t) ==
  /\ pc[t] = "loop"
  /\ stack[t] = <<>>
  /\ resp' = [resp EXCEPT ![t] =
                Response("summary", resp[t].name, 200,
                         Some(SummaryData(recipe[t], total_cooking_time[t],
                                          ingredient_counts[t])))]
  /\ pc' = [pc EXCEPT ![t] = "idle"]
  /\ ClearLocals(t)
  /\ UNCHANGED <<recipe_store, entry_data>>

\* ------------------------------------------------------------------------
\* Specifications
\* ------------------------------------------------------------------------
\* Requests processed one at a time: one thread, each create_entry atomic.
Next ==
  \/ \E data \in EntryRequests : CreateEntry(1, data)
  \/ \E arg \in SummaryArgs : SummaryStart(1, arg)
  \/ SummaryStep(1)
  \/ SummaryReturn(1)

Spec == Init /\ [][Next]_vars

\* The same server, with a running summary request always continuing.
SpecLive == Spec /\ WF_vars(SummaryStep(1)) /\ WF_vars(SummaryReturn(1))

\* Create requests handled by two threads, interleaved between the
\* validation and the store assignment.
ConcRequests ==
  {data \in EntryRequests :
     "name" \in DOMAIN data => data.name \in {nEgg, nFlour, nSoup}}

NextConc ==
  \/ \E t \in Threads : \E data \in ConcRequests : CreateValidate(t, data)
  \/ \E t \in Threads : CreateInsert(t)

SpecConc == Init /\ [][NextConc]_vars

\* ------------------------------------------------------------------------
\* The composition graph of a store, and the recursive definition of a summary
\* ------------------------------------------------------------------------
\* the names a stored recipe requires
Requires(store, k) ==
  IF store[k].cls = "Recipe"
  THEN {store[k].required_items[i].name : i \in 1..Len(store[k].required_items)}
  ELSE {}

RECURSIVE Closure(_, _, _)
Closure(store, set, n) ==
  IF n = 0 THEN set
  ELSE Closure(store, set \cup UNION {Requires(store, k) : k \in set}, n - 1)

\* the names reachable from k in zero or more steps
Reachable(store, k) == Closure(store, {k}, Cardinality(Names))

\* every name reachable from k is a key of the store
Resolvable(store, k) == \A r \in Reachable(store, k) : In(r, store)

\* some recipe reachable from k transitively requires itself
Cyclic(store, k) ==
  \E r \in Reachable(store, k) :
     r \in Closure(store, Requires(store, r), Cardinality(Names))

\* the display names of the stored ingredients
IngredientNames(store) ==
  {store[k].name : k \in {j \in Names : store[j].cls = "Ingredient"}}

\* Quantity of display name n needed for one unit of store[k]; defined when
\* the graph from k is acyclic and resolvable.
RECURSIVE RefCount(_, _, _)
RECURSIVE RefCountItems(_, _, _, _)
RefCount(store, k, n) ==
  IF store[k].cls = "Ingredient" THEN (IF store[k].name = n THEN 1 ELSE 0)
  ELSE RefCountItems(store, store[k].required_items, 1, n)

RefCountItems(store, items, i, n) ==
  IF i > Len(items) THEN 0
  ELSE PyInt(items[i].quantity) * RefCount(store, items[i].name, n)
       + RefCountItems(store, items, i + 1, n)

\* Cook time of one unit of store[k], under the same condition.
RECURSIVE RefTime(_, _)
RECURSIVE RefTimeItems(_, _, _)
RefTime(store, k) ==
  IF store[k].cls = "Ingredient" THEN PyInt(store[k].cook_time)
  ELSE RefTimeItems(store, store[k].required_items, 1)

RefTimeItems(store, items, i) ==
  IF i > Len(items) THEN 0
  ELSE PyInt(items[i].quantity) * RefTime(store, items[i].name)
       + RefTimeItems(store, items, i + 1)

\* the total quantity a returned ingredients list reports under name n
RECURSIVE Reported(_, _)
Reported(ingredients, n) ==
  IF ingredients = <<>> THEN 0
  ELSE (IF Head(ingredients).name = n THEN Head(ingredients).quantity ELSE 0)
       + Reported(Tail(ingredients), n)

\* thread t holds the response to a summary request that returned a summary
Summarised(t) == resp[t].op = "summary" /\ resp[t].status = 200

dEgg == <<"E","g","g">>
dFlour == <<"F","l","o","u","r">>

\* ------------------------------------------------------------------------
\* C1: a returned summary is the recursive expansion of the recipe: the
\* quantity under each display name is the sum over the required items of
\* quantity times the item's own expansion, cookTime likewise, so a recipe
\* required with quantity q contributes q times its standalone summary.
\* ------------------------------------------------------------------------
C1_SummaryIsRecursiveExpansion ==
  \A t \in Threads :
     Summarised(t) =>
       LET k == resp[t].name[1]
           body == resp[t].body[1]
       IN /\ recipe_store[k].cls = "Recipe"
          /\ Resolvable(recipe_store, k)
          /\ ~Cyclic(recipe_store, k)
          /\ body.name = recipe_store[k].name
          /\ body.cookTime = RefTime(recipe_store, k)
          /\ \A i \in 1..Len(body.ingredients) :
                body.ingredients[i].name \in IngredientNames(recipe_store)
          /\ \A n \in IngredientNames(recipe_store) :
                Reported(body.ingredients, n) = RefCount(recipe_store, k, n)

\* Pancake = 3 x Batter(2 Egg@5, 1 Flour@2): cookTime 36, Egg 6, Flour 3
C1_Witness ==
  \E t \in Threads :
     /\ Summarised(t)
     /\ resp[t].name = Some(nPancake)
     /\ recipe_store[nPancake].required_items = <<RequiredItem(nBatter, JInt(3))>>
     /\ resp[t].body[1].cookTime = 36
     /\ resp[t].body[1].ingredients =
          <<[name |-> dEgg, quantity |-> 6], [name |-> dFlour, quantity |-> 3]>>

\* thread t holds the response to a create request
Created(t) == resp[t].op = "entry" /\ resp[t].status = 200
CreateRejected(t) == resp[t].op = "entry" /\ resp[t].status = 400

\* ------------------------------------------------------------------------
\* C2: with requests processed one at a time, a create request whose name is
\* already a key is rejected whatever the two types are, so a create request
\* succeeds only on an absent name and stores the entity built from it, and
\* a key keeps the entity of its first successful request.
\* ------------------------------------------------------------------------
C2_DuplicateNameRejected ==
  [][\A data \in EntryRequests :
       CreateEntry(1, data) =>
         /\ ("name" \in DOMAIN data /\ In(data.name, recipe_store)) =>
               /\ CreateRejected(1)'
               /\ recipe_store' = recipe_store
         /\ Created(1)' =>
               /\ ~In(data.name, recipe_store)
               /\ recipe_store'[data.name] =
                    validate_entry_data(data, recipe_store)[1].entry
         /\ \A k \in Names :
               In(k, recipe_store) => recipe_store'[k] = recipe_store[k]]_vars

\* a create request for "egg" was rejected while an entry "egg" is stored
C2_Witness ==
  /\ CreateRejected(1)
  /\ resp[1].name = Some(nEgg)
  /\ In(nEgg, recipe_store)

\* ------------------------------------------------------------------------
\* C3: with create requests handled concurrently, no two create requests of
\* the same name both succeed and no successful insertion replaces an entity
\* another successful request stored.
\* ------------------------------------------------------------------------
C3_ConcurrentCreateAtomic ==
  [][/\ \A k \in Names :
          In(k, recipe_store) => recipe_store'[k] = recipe_store[k]
     /\ \A t1, t2 \in Threads :
          (t1 # t2 /\ Created(t1)' /\ Created(t2)')
             => resp'[t1].name # resp'[t2].name]_vars

\* ------------------------------------------------------------------------
\* C5: the ingredients of a returned summary are in strictly increasing
\* order of name (Python's string order), so no name occurs twice.
\* ------------------------------------------------------------------------
C5_IngredientsStrictlySorted ==
  \A t \in Threads :
     Summarised(t) =>
       LET ingredients == resp[t].body[1].ingredients
       IN \A i \in 1..(Len(ingredients) - 1) :
             StrLess(ingredients[i].name, ingredients[i + 1].name)

\* Flour is counted first and reached twice (directly and through Batter);
\* "egg" and "egg_2" are two ingredients both displayed as "Egg".
C5_Witness ==
  /\ Summarised(1)
  /\ resp[1].name = Some(nPancake)
  /\ recipe_store[nEgg].cls = "Ingredient"
  /\ recipe_store[nEgg2].cls = "Ingredient"
  /\ resp[1].body[1].ingredients =
       <<[name |-> dEgg, quantity |-> 7], [name |-> dFlour, quantity |-> 4]>>

\* ------------------------------------------------------------------------
\* C6: the store changes only by a successful create request, which adds one
\* key that was absent; a rejected create request and every step of a
\* summary request leave it as it was; a stored entry is never modified or
\* removed.
\* ------------------------------------------------------------------------
C6_StoreFrame ==
  [][/\ recipe_store' # recipe_store =>
          \E data \in EntryRequests :
             /\ CreateEntry(1, data)
             /\ Created(1)'
             /\ ~In(data.name, recipe_store)
             /\ In(data.name, recipe_store')
             /\ \A k \in Names \ {data.name} : recipe_store'[k] = recipe_store[k]
     /\ (\E data \in EntryRequests : CreateEntry(1, data) /\ CreateRejected(1)')
          => recipe_store' = recipe_store
     /\ ((\E arg \in SummaryArgs : SummaryStart(1, arg))
           \/ SummaryStep(1) \/ SummaryReturn(1))
          => recipe_store' = recipe_store
     /\ \A k \in Names :
          In(k, recipe_store) => recipe_store'[k] = recipe_store[k]]_vars

\* a malformed create request was rejected while entries are stored
C6_Witness ==
  /\ CreateRejected(1)
  /\ resp[1].name = Some(nSoup)
  /\ \E k \in Names : In(k, recipe_store)

\* ------------------------------------------------------------------------
\* C8: every stored entity is well formed: an Ingredient's cookTime is an
\* int >= 0; a Recipe's required items have int quantities > 0 and pairwise
\* different names and are the items of a request, in the request's order.
\* ------------------------------------------------------------------------
ItemsOfRequest(data) ==
  [i \in 1..Len(data.requiredItems.items) |->
     RequiredItem(data.requiredItems.items[i].d.name,
                  data.requiredItems.items[i].d.quantity)]

C8_StoredEntitiesWellFormed ==
  \A k \in Names :
     /\ recipe_store[k].cls = "Ingredient" =>
          /\ IsInt(recipe_store[k].cook_time)
          /\ PyInt(recipe_store[k].cook_time) >= 0
     /\ recipe_store[k].cls = "Recipe" =>
          LET items == recipe_store[k].required_items
          IN /\ \A i \in 1..Len(items) :
                   IsInt(items[i].quantity) /\ PyInt(items[i].quantity) > 0
             /\ \A i, j \in 1..Len(items) :
                   i # j => items[i].name # items[j].name
             /\ \E data \in ValidRequests :
                   /\ data.type = "recipe"
                   /\ data.name = k
                   /\ items = ItemsOfRequest(data)

\* the recipe request that names "egg" twice, with quantities 1 and 2, was
\* rejected: no "pancake" is stored
C8_Witness ==
  /\ CreateRejected(1)
  /\ resp[1].name = Some(nPancake)
  /\ ~In(nPancake, recipe_store)
  /\ \E k \in Names : recipe_store[k].cls = "Recipe" /\ Len(recipe_store[k].required_items) = 2

\* thread t holds the response, 200 or 400, to a summary request for a key
\* that maps to a Recipe
AnsweredForRecipe(t) ==
  /\ resp[t].op = "summary"
  /\ resp[t].status \in {200, 400}
  /\ resp[t].name # None
  /\ recipe_store[resp[t].name[1]].cls = "Recipe"

\* thread t is inside the loop of calculate_recipe_summary; the request's
\* name is resp[t].name[1]
Traversing(t) == pc[t] = "loop"

\* ------------------------------------------------------------------------
\* C4: a summary is returned only for a key that maps to a Recipe from which
\* every reachable name is a key; a request for a missing parameter, an
\* absent key or an Ingredient is rejected before the traversal starts; a
\* traversal step that meets an absent name rejects the request, and a
\* rejection carries no summary.
\* ------------------------------------------------------------------------
SummaryOnlyIfResolvable ==
  \A t \in Threads :
     Summarised(t) =>
       /\ resp[t].name # None
       /\ recipe_store[resp[t].name[1]].cls = "Recipe"
       /\ Resolvable(recipe_store, resp[t].name[1])
       /\ resp[t].body # None

NoPartialSummary ==
  \A t \in Threads :
     (resp[t].op = "summary" /\ resp[t].status # 200) => resp[t].body = None

\* the entry on top of thread t's work list is a recipe that requires a name
\* the store does not hold
TopRequiresAbsent(t) ==
  /\ stack[t] # <<>>
  /\ LET top == stack[t][Len(stack[t])].entry
     IN /\ top.cls = "Recipe"
        /\ \E i \in 1..Len(top.required_items) :
              ~In(top.required_items[i].name, recipe_store)

C4_SummaryPreconditions ==
  [][/\ SummaryOnlyIfResolvable'
     /\ NoPartialSummary'
     /\ \A arg \in SummaryArgs :
          (/\ SummaryStart(1, arg)
           /\ \/ arg = None
              \/ ~In(arg[1], recipe_store)
              \/ recipe_store[arg[1]].cls = "Ingredient")
            => /\ resp'[1] = Response("summary", arg, 400, None)
               /\ pc'[1] = "idle"
               /\ stack'[1] = <<>>
     /\ (SummaryStep(1) /\ TopRequiresAbsent(1))
            => /\ resp'[1].status = 400
               /\ resp'[1].body = None
               /\ pc'[1] = "idle"]_vars

\* the summary of "batter" was rejected: "batter" is stored, "flour" is not
C4_Witness ==
  /\ resp[1] = Response("summary", Some(nBatter), 400, None)
  /\ recipe_store[nBatter].cls = "Recipe"
  /\ recipe_store[nBatter].required_items =
       <<RequiredItem(nEgg, JInt(2)), RequiredItem(nFlour, JInt(1))>>
  /\ recipe_store[nEgg].cls = "Ingredient"
  /\ ~In(nFlour, recipe_store)

\* ------------------------------------------------------------------------
\* C7: a traversal of an acyclic composition graph ends, with a summary or
\* with a rejection.
\* ------------------------------------------------------------------------
C7_AcyclicTraversalTerminates ==
  (Traversing(1) /\ ~Cyclic(recipe_store, resp[1].name[1]))
     ~> (pc[1] = "idle" /\ resp[1].status \in {200, 400})

\* an acyclic traversal under way: entries counted, three entries waiting
C7_Witness ==
  /\ Traversing(1)
  /\ ~Cyclic(recipe_store, resp[1].name[1])
  /\ Len(stack[1]) = 3
  /\ ingredient_counts[1] # <<>>

\* ------------------------------------------------------------------------
\* C9 as stated: a summary request for a recipe whose composition graph
\* contains a cycle is never answered, neither with a summary nor with a
\* rejection.
\* ------------------------------------------------------------------------
C9_CyclicNeverAnswered ==
  \A t \in Threads :
     AnsweredForRecipe(t) => ~Cyclic(recipe_store, resp[t].name[1])

\* ------------------------------------------------------------------------
\* C9 as amended: when the graph contains a cycle and every name reachable
\* from the recipe is a key, the loop never ends: after each iteration the
\* work list is not empty and the request is still unanswered.
\* ------------------------------------------------------------------------
C9_ResolvableCycleNeverEnds ==
  [][(/\ Traversing(1)
      /\ Cyclic(recipe_store, resp[1].name[1])
      /\ Resolvable(recipe_store, resp[1].name[1]))
        => /\ Traversing(1)'
           /\ stack'[1] # <<>>
           /\ resp'[1].status = 0]_vars

\* a traversal round a resolvable cycle, past its first iterations
C9_Witness ==
  /\ Traversing(1)
  /\ Cyclic(recipe_store, resp[1].name[1])
  /\ Resolvable(recipe_store, resp[1].name[1])
  /\ \E i \in 1..Len(stack[1]) : stack[1][i].multiplier > 1

\* ------------------------------------------------------------------------
\* C10 as stated: a recipe request is accepted whether or not the names it
\* requires are keys, and a summary request for a stored recipe (acyclic
\* graph) is rejected while a reachable name is absent and succeeds once
\* every one is a key.
\* ------------------------------------------------------------------------
RecipeAcceptedWithoutLookup ==
  \A data \in ValidRequests :
     (data.type = "recipe" /\ ~In(data.name, recipe_store))
        => validate_entry_data(data, recipe_store) # None

====
